---------------------------- MODULE Spec2Model ----------------------------
(***************************************************************************)
(* A model of borg-daemon.py: the daemon loop (run_daemon), the composite  *)
(* cycle (run_single = run_create, then run_prune) and the commands it     *)
(* assembles, main from its startup (parse_config, mark_caches) through    *)
(* the environment it builds to the single-shot dispatch, the              *)
(* configuration cascade (parse_config / update_config) and the cache      *)
(* directory tags (mark_caches).                                           *)
(*                                                                         *)
(* Time is the naive local datetime of the program, counted in seconds     *)
(* since local midnight of 1970-01-01.  The wall clock is modelled as      *)
(* non-decreasing and advances only while the program blocks: in the       *)
(* external process (run_borg) and in sleep().                             *)
(***************************************************************************)
EXTENDS Integers, Sequences, FiniteSets, TLC

VARIABLES
    pc,                  \* position of the program
    operation,           \* arguments.operation
    clock,               \* the wall clock, what datetime.now() returns
    deadline,            \* the model stops advancing the clock here
    last_known_success,  \* run_daemon
    now,                 \* run_daemon: the clock read at the top of the iteration
    prev_target,         \* run_daemon
    next_target,         \* run_daemon
    due,                 \* run_daemon
    success,             \* run_daemon: what run_single returned
    sleep_time,          \* run_daemon: the argument of sleep()
    retrying,            \* a due cycle failed and none has succeeded since
    succeeded_in,        \* `now` of the last iteration whose cycle succeeded
    failed_in,           \* `now` of the iteration whose cycle failed, while
                         \* none has succeeded since
    prev_end,            \* the clock when the iteration before this one
                         \* called sleep()
    prev_next_target,    \* next_target of the iteration before this one
    overslept,           \* how late that sleep() returned
    spawned,             \* the processes run_borg has spawned since the top of
                         \* the iteration (or since main began), in order:
                         \* [action, returncode]
    result,              \* what the dispatched run_* function returned
    os_environ,          \* os.environ, the inherited environment
    config_borg,         \* config['borg'], as far as main reads it
    passphrase,          \* what getpass.getpass() returns when it is called
    env,                 \* main: the environment built for the external process
    proc_env,            \* the env= of the last subprocess.Popen
    exit_status,         \* the exit status of the program, once it has exited
    files,               \* the configuration files: name -> parsed document
    stack,               \* the active calls of parse_config, innermost last
    cfg_state,           \* "start", "running", "returned" or "raised"
    cfg_error,           \* the exception parse_config raised
    cfg_ret,             \* what the outermost parse_config returned
    imported,            \* the outermost call's `result` once its imports are
                         \* merged, before its own contents are
    reads,               \* how many files parse_config has opened and loaded
    fs,                  \* the file system below path_root: path -> node
    caches,              \* config['create']['cachedirs']
    cache_dirs,          \* mark_caches: the paths still to be looked at
    mc_state,            \* "start", "running", "returned" or "raised"
    mc_error,            \* the exception mark_caches raised
    mc_failed_at,        \* the dir_path at which it was raised
    fs_before,           \* the file system when mark_caches was called
    fs_initial,          \* the file system before the first call
    written,             \* the paths written during this call, in order
    mc_calls,            \* how often mark_caches has been called
    mc_prev,             \* how the call before this one ended
    config_run,          \* the configuration, as far as run_* read it
    command              \* the argument list of the last subprocess.Popen

\* What main reads and builds before it dispatches.
envVars == <<os_environ, config_borg, passphrase, env>>

\* The locals of run_daemon and what the model records about its cycles.
daemonVars == <<last_known_success, now, prev_target, next_target, due, success,
                sleep_time, retrying, succeeded_in, failed_in, prev_end,
                prev_next_target, overslept>>

\* The state of mark_caches.
mcVars == <<fs, caches, cache_dirs, mc_state, mc_error, mc_failed_at, fs_before,
            fs_initial, written, mc_calls, mc_prev>>

\* What run_borg is given and what it runs.
runVars == <<config_run, command>>

\* The state of parse_config.
cfgVars == <<files, stack, cfg_state, cfg_error, cfg_ret, imported, reads>>

vars == <<pc, operation, clock, deadline, last_known_success, now, prev_target,
          next_target, due, success, sleep_time, retrying, succeeded_in,
          failed_in, prev_end, prev_next_target, overslept, spawned, result, os_environ, config_borg, passphrase, env, proc_env,
          exit_status, files, stack, cfg_state, cfg_error, cfg_ret, imported,
          reads, fs, caches, cache_dirs, mc_state, mc_error, mc_failed_at,
          fs_before, fs_initial, written, mc_calls, mc_prev, config_run, command>>

-----------------------------------------------------------------------------
(* Time *)

Minute == 60
Hour == 60 * Minute
Day == 24 * Hour

\* datetime.fromtimestamp(0), in a zone whose offset from UTC is zero
Epoch == 0

\* n = 3: one backup every n hours
N == 3

\* 60 * 15, the cap of the sleep time
SLEEP_CAP == 60 * 15

\* The granularity of the modelled clock.
Tick == 5 * Minute

\* How far beyond its start the model follows the clock, in ticks.
MaxElapsedTicks == 50

\* sleep() may return late by up to this many ticks.
MaxOversleepTicks == 1

\* The clock at daemon start: inside the bucket of the epoch itself, at 02:00
\* of the next day, and at 20:30 (so that a run crosses midnight).
StartClocks == {Epoch + 10 * Minute, Day + 2 * Hour, Day + 20 * Hour + 30 * Minute}

\* How long one external process takes: under a tick, a tick, 35 minutes,
\* and longer than a whole bucket.
Durations == {0, Tick, 7 * Tick, 37 * Tick}

\* Exit statuses of the external tool (borg: 0 success, 1 warning, 2 error).
ExitCodes == {0, 1, 2}

\* A local that holds no value yet.
NoTime == 0 - 1

Max(a, b) == IF a >= b THEN a ELSE b
Min(a, b) == IF a <= b THEN a ELSE b

-----------------------------------------------------------------------------
(* run_daemon: the targets and the due check *)

\* now.hour
HourOf(t) == (t % Day) \div Hour

PrevHourUnrounded(t) == HourOf(t)

\* prev_hour = n * (now.hour // n)
PrevHour(t) == N * (HourOf(t) \div N)

\* now.replace(hour=prev_hour, minute=0, second=0, microsecond=0)
PrevTarget(t) == (t - (t % Day)) + PrevHour(t) * Hour

\* prev_target + timedelta(hours=n)
NextTarget(p) == p + N * Hour

DueNotStrict(lks, p) == lks <= p

\* due = last_known_success < prev_target
Due(lks, p) == lks < p

SleepTimeNoFloor(target, t) == Min(SLEEP_CAP, target - t)

SleepTimeNoCap(target, t) == Max(target - t, 0)

SleepTimeFromPrevTarget(target, t) == Min(SLEEP_CAP, Max(prev_target - t, 0))

SleepTimeCapOnly(target, t) == SLEEP_CAP

\* max(sleep_time, 0), then min(60 * 15, sleep_time)
SleepTime(target, t) == Min(SLEEP_CAP, Max(target - t, 0))

-----------------------------------------------------------------------------
(* main: the environment of the external process *)

\* An environment is a function from the names it holds to their values.
EnvNames == {"BORG_PASSCOMMAND", "BORG_PASSPHRASE", "HOME"}
EnvValues == {"inherited-1", "inherited-2"}

\* Every environment the program may inherit.
Environments ==
    UNION {[names -> EnvValues] : names \in SUBSET EnvNames}

\* config['borg'] with and without passphrase_command
BorgSections == {<<>>, [passphrase_command |-> "pass-command"]}

\* A local that holds no value yet.
NoEnv == [unset |-> "unset"]
NoCode == 0 - 1

\* dict(mapping, NAME=value): a copy of `mapping` in which NAME is `value`
DictWith(mapping, name, value) ==
    [n \in DOMAIN mapping \cup {name} |-> IF n = name THEN value ELSE mapping[n]]

\* try: env = dict(os.environ, BORG_PASSCOMMAND=config['borg']['passphrase_command'])
\* except KeyError: env = dict(os.environ, BORG_PASSPHRASE=getpass.getpass(...))
PassphraseEnv ==
    IF "passphrase_command" \in DOMAIN config_borg
      THEN DictWith(os_environ, "BORG_PASSCOMMAND", config_borg.passphrase_command)
      ELSE DictWith(os_environ, "BORG_PASSPHRASE", passphrase)

-----------------------------------------------------------------------------
(* update_config and parse_config *)

\* A parsed TOML value: a string, a list of strings, or a table (dict) from
\* keys to values.
Str(v) == [s |-> v]
List(v) == [l |-> v]
Dict(f) == [d |-> f]
IsDict(v) == DOMAIN v = {"d"}
IsStr(v) == DOMAIN v = {"s"}

\* {}
EmptyDict == Dict(<<>>)

\* An exception, in place of a value.
Raised(e) == [raised |-> e]
IsRaised(v) == DOMAIN v = {"raised"}

\* What update_config raises on a base that is no dict: AttributeError from
\* base.get when the value is a dict, TypeError from base[key] = val when
\* it is not.
UpdateError == "TypeError or AttributeError"

\* A name no file has, an option left out, a variable not yet set.
NoFile == [nofile |-> "nofile"]
Absent == [absent |-> "absent"]
NoConfig == [unset |-> "unset"]

\* update_config(base, new): `new` is a dict; `base` is the accumulator, or,
\* in the recursion, whatever base.get(key, {}) returned.  With nothing to
\* iterate over, base is returned as it is; a base that is no dict has no
\* .get and takes no item assignment by key, so the first key raises.
RECURSIVE UpdateConfig(_, _)
UpdateConfig(base, new) ==
    IF DOMAIN new.d = {} THEN base
    ELSE IF ~IsDict(base) THEN Raised(UpdateError)
    ELSE
        LET sub(key) ==
                IF IsDict(new.d[key])
                  THEN UpdateConfig(
                           IF key \in DOMAIN base.d THEN base.d[key] ELSE EmptyDict,
                           new.d[key])
                  ELSE new.d[key]
        IN  IF \E key \in DOMAIN new.d : IsRaised(sub(key))
              THEN Raised(UpdateError)
              ELSE Dict([key \in DOMAIN base.d \cup DOMAIN new.d |->
                            IF key \in DOMAIN new.d THEN sub(key) ELSE base.d[key]])

\* imports = contents.get('imports', []); a string is a one-element list
ImportsOf(contents) ==
    IF "imports" \notin DOMAIN contents.d THEN <<>>
    ELSE IF IsStr(contents.d.imports) THEN <<contents.d.imports.s>>
    ELSE contents.d.imports.l

ImporteePathOfImporter(path, importee) == path

\* Path(path.parent, importee): the files of the model lie in one directory,
\* where this names the file `importee` of that directory.
ImporteePath(path, importee) == importee

\* The file main passes to parse_config.
RootPath == "main"

\* The values the files give to their key "k".
KeyValues ==
    { Str("1"), Str("2"),
      List(<<"1", "2">>), List(<<"2">>),
      EmptyDict,
      Dict([x |-> Str("1")]),
      Dict([x |-> Str("2"), y |-> Str("1")]),
      Dict([y |-> List(<<"1">>)]),
      Dict([x |-> Dict([z |-> Str("1")])]),
      Dict([x |-> Dict([z |-> Str("2"), w |-> Str("2")])]) }

\* A document with the given imports and the given value of "k", either of
\* which may be left out.
Document(imports, value) ==
    Dict([key \in (IF imports = Absent THEN {} ELSE {"imports"})
                   \cup (IF value = Absent THEN {} ELSE {"k"}) |->
             IF key = "imports" THEN imports ELSE value])

\* The file systems parse_config is run on: main imports nothing, a, a and
\* b in either order (a diamond when a imports b too), or itself; a may
\* import b, or main (a cycle when main imports a); b imports nothing and
\* may not exist.
FileSystems ==
    { [name \in {"main", "a", "b"} |->
          CASE name = "main" -> Document(mi, mk)
            [] name = "a" -> Document(ai, ak)
            [] name = "b" -> IF bk = NoFile THEN NoFile ELSE Document(Absent, bk)] :
        mi \in {Absent, Str("a"), List(<<"a">>), List(<<"a", "b">>),
                List(<<"b", "a">>), Str("main")},
        ai \in {Absent, List(<<"b">>), List(<<"main">>)},
        mk \in KeyValues \cup {Absent},
        ak \in KeyValues \cup {Absent},
        bk \in KeyValues \cup {Absent, NoFile} }

Top == stack[Len(stack)]

\* How many nested calls of parse_config the interpreter allows before it
\* raises RecursionError (sys.getrecursionlimit() frames in CPython, a
\* thousand by default; parse_config itself sets no limit).
MaxRecursionDepth == 5

\* parse_config(path) is called, by main or for the next importee of the
\* innermost call: open and load the file, read its imports, result = {}.
\* Nothing is remembered about the files that are being parsed already.
ParseConfigEnter ==
    /\ \/ cfg_state = "start" /\ pc = "parse_config"
       \/ cfg_state = "running" /\ Top.i <= Len(Top.imports)
    /\ LET path == IF cfg_state = "start" THEN RootPath
                   ELSE ImporteePath(Top.path, Top.imports[Top.i])
       IN  IF Len(stack) >= MaxRecursionDepth
             THEN /\ cfg_state' = "raised"
                  /\ cfg_error' = "RecursionError"
                  /\ stack' = <<>>
                  /\ reads' = reads
           ELSE IF files[path] = NoFile
             THEN /\ cfg_state' = "raised"
                  /\ cfg_error' = "FileNotFoundError"
                  /\ stack' = <<>>
                  /\ reads' = reads
             ELSE /\ cfg_state' = "running"
                  /\ cfg_error' = cfg_error
                  /\ reads' = reads + 1
                  /\ stack' = Append(stack,
                         [path |-> path,
                          contents |-> files[path],
                          imports |-> ImportsOf(files[path]),
                          i |-> 1,
                          result |-> EmptyDict])
    /\ UNCHANGED <<files, cfg_ret, imported>>
    /\ UNCHANGED <<pc, operation, clock, deadline, daemonVars, spawned, result,
                   envVars, proc_env, exit_status, mcVars, runVars>>

\* The imports of the innermost call are merged: update_config(result,
\* contents), return result; in the caller, update_config(result,
\* importee_contents) and on to the next importee.
ParseConfigReturn ==
    /\ cfg_state = "running"
    /\ Top.i > Len(Top.imports)
    /\ LET returned == UpdateConfig(Top.result, Top.contents)
           caller == stack[Len(stack) - 1]
           merged == UpdateConfig(caller.result, returned)
       IN  /\ imported' = IF Len(stack) = 1 THEN Top.result ELSE imported
           /\ IF IsRaised(returned)
                THEN /\ cfg_state' = "raised"
                     /\ cfg_error' = returned.raised
                     /\ stack' = <<>>
                     /\ cfg_ret' = cfg_ret
              ELSE IF Len(stack) = 1
                THEN /\ cfg_state' = "returned"
                     /\ cfg_ret' = returned
                     /\ stack' = <<>>
                     /\ cfg_error' = cfg_error
              ELSE IF IsRaised(merged)
                THEN /\ cfg_state' = "raised"
                     /\ cfg_error' = merged.raised
                     /\ stack' = <<>>
                     /\ cfg_ret' = cfg_ret
              ELSE /\ cfg_state' = "running"
                   /\ stack' = Append(SubSeq(stack, 1, Len(stack) - 2),
                          [caller EXCEPT !.result = merged, !.i = caller.i + 1])
                   /\ cfg_ret' = cfg_ret
                   /\ cfg_error' = cfg_error
    /\ UNCHANGED <<files, reads>>
    /\ UNCHANGED <<pc, operation, clock, deadline, daemonVars, spawned, result,
                   envVars, proc_env, exit_status, mcVars, runVars>>

\* parse_config has not been called yet, on a given file system.
ConfigInit ==
    /\ stack = <<>>
    /\ cfg_state = "start"
    /\ cfg_error = "none"
    /\ cfg_ret = NoConfig
    /\ imported = NoConfig
    /\ reads = 0

\* In the specifications of the daemon and of mark_caches the configuration
\* is resolved already.
ConfigResolved ==
    /\ files = [name \in {"main"} |-> EmptyDict]
    /\ stack = <<>>
    /\ cfg_state = "returned"
    /\ cfg_error = "none"
    /\ cfg_ret = EmptyDict
    /\ imported = EmptyDict
    /\ reads = 1

-----------------------------------------------------------------------------
(* mark_caches *)

\* A text is a sequence of pieces, each a run of characters within one line
\* or a line break.  CACHE_TAG_CONTENTS: the signature line, then comment
\* lines.
CACHE_TAG_CONTENTS ==
    << "Signature: 8a477f597d28d172789f06886806bc55", "\n",
       "# This file is a cache directory tag.", "\n",
       "# For information about cache directory tags, see:", "\n",
       "#\thttp://www.brynosaurus.com/cachedir/", "\n",
       "#", "\n",
       "# The directory is marked as cachedir to avoid it being backed up by borg.",
       "\n" >>

\* text.splitlines(): the lines of a text, without their line breaks
RECURSIVE SplitLines(_)
SplitLines(text) ==
    IF text = <<>> THEN <<>>
    ELSE LET breaks == {i \in 1..Len(text) : text[i] = "\n"}
             end == IF breaks = {} THEN Len(text) + 1
                    ELSE CHOOSE i \in breaks : \A j \in breaks : i <= j
         IN  <<SubSeq(text, 1, end - 1)>> \o SplitLines(SubSeq(text, end + 1, Len(text)))

\* CACHE_TAG_CONTENTS.splitlines()[0]
CACHE_TAG_STARTLINE == SplitLines(CACHE_TAG_CONTENTS)[1]

StartsWithAnything(text, prefix) == TRUE

\* text.startswith(prefix)
StartsWith(text, prefix) ==
    /\ Len(text) >= Len(prefix)
    /\ SubSeq(text, 1, Len(prefix)) = prefix

\* What a path of the file system names: a directory or a regular file with
\* its contents.  A path is the sequence of names below path_root.
Directory == [kind |-> "dir", contents |-> <<>>]
File(text) == [kind |-> "file", contents |-> text]
NoNode == [kind |-> "none", contents |-> <<>>]

\* dir_path / 'CACHEDIR.TAG'
TagPath(dir_path) == Append(dir_path, "CACHEDIR.TAG")

\* path.exists(): false also where a parent of the path is no directory
Exists(tree, path) == path \in DOMAIN tree

\* path.is_file()
IsFile(tree, path) == Exists(tree, path) /\ tree[path].kind = "file"

IsDirectory(tree, path) == Exists(tree, path) /\ tree[path].kind = "dir"

\* What may be found under the name CACHEDIR.TAG: the tag as this program
\* writes it, a tag with the signature line and other text after it, a file
\* with another first line, an empty file, a directory.
TagNodes ==
    { File(CACHE_TAG_CONTENTS),
      File(CACHE_TAG_STARTLINE \o <<" and more on the same line", "\n">>),
      File(<<"Signature: 00000000000000000000000000000000", "\n">>),
      File(<<>>),
      Directory }

EmptyTree == [path \in {} |-> NoNode]

\* The tree of one name below path_root: nothing, a regular file, or a
\* directory with or without something named CACHEDIR.TAG in it.
Tree(name, kind, tag) ==
    IF kind = "absent" THEN EmptyTree
    ELSE IF kind = "file" THEN (<<name>> :> File(<<"data">>))
    ELSE IF tag = NoNode THEN (<<name>> :> Directory)
    ELSE (<<name>> :> Directory) @@ (TagPath(<<name>>) :> tag)

TreesOf(name) ==
    {Tree(name, "absent", NoNode), Tree(name, "file", NoNode)}
        \cup {Tree(name, "dir", tag) : tag \in TagNodes \cup {NoNode}}

\* The file systems mark_caches is run on: c1 and c2 below path_root.
CacheTrees == {t1 @@ t2 : t1 \in TreesOf("c1"), t2 \in TreesOf("c2")}

\* config['create'].get('cachedirs', []): a name, or a pattern for every
\* path one or two levels below path_root.
CachePatternLists ==
    { <<>>, <<"c1">>, <<"c2", "c1">>, <<"missing", "c2">>, <<"*">>,
      <<"c1", "*">>, <<"*/*">>, <<"c1", "*/*">> }

\* The order in which a directory listing yields the paths.
ListingOrder ==
    << <<"c1">>, <<"c2">>, TagPath(<<"c1">>), TagPath(<<"c2">>) >>

Matches(pattern, path) ==
    CASE pattern = "*" -> Len(path) = 1
      [] pattern = "*/*" -> Len(path) = 2
      [] OTHER -> path = <<pattern>>

\* path_root.glob(cache): the existing paths that match, of whatever kind
Glob(tree, pattern) ==
    SelectSeq(ListingOrder, LAMBDA path : Exists(tree, path) /\ Matches(pattern, path))

ExpandFirstGlob(tree, patterns) ==
    IF patterns = <<>> THEN <<>> ELSE Glob(tree, Head(patterns))

\* cache_dirs = []; for cache in caches: cache_dirs += path_root.glob(cache)
RECURSIVE ExpandGlobs(_, _)
ExpandGlobs(tree, patterns) ==
    IF patterns = <<>> THEN <<>>
    ELSE Glob(tree, Head(patterns)) \o ExpandGlobs(tree, Tail(patterns))

\* How often mark_caches is run on the file system it left behind.
MaxMarkCalls == 2

\* mark_caches(path_root, caches) is called: the globs are expanded, all of
\* them before the first directory is looked at.
MarkCachesCall ==
    /\ pc = "mark_caches"
    /\ mc_state = "start"
    /\ mc_state' = "running"
    /\ cache_dirs' = ExpandGlobs(fs, caches)
    /\ fs_before' = fs
    /\ written' = <<>>
    /\ mc_calls' = mc_calls + 1
    /\ UNCHANGED <<fs, caches, fs_initial, mc_error, mc_failed_at, mc_prev>>
    /\ UNCHANGED <<pc, operation, clock, deadline, daemonVars, spawned, result,
                   envVars, proc_env, exit_status, cfgVars, runVars>>

\* One turn of `for dir_path in cache_dirs`.  A tag that exists must be a
\* regular file that starts with the signature line (the two assert
\* statements); where no tag exists and dir_path exists, the tag is opened
\* for writing, which the file system refuses when dir_path is no directory.
MarkCachesStep ==
    /\ mc_state = "running"
    /\ cache_dirs # <<>>
    /\ LET dir_path == Head(cache_dirs)
           tag_path == TagPath(dir_path)
           outcome ==
               IF Exists(fs, tag_path)
                 THEN IF ~IsFile(fs, tag_path) THEN "AssertionError"
                      ELSE IF ~StartsWith(fs[tag_path].contents, CACHE_TAG_STARTLINE)
                        THEN "AssertionError"
                      ELSE "valid"
               ELSE IF Exists(fs, dir_path)
                 THEN IF IsDirectory(fs, dir_path) THEN "write"
                      ELSE "NotADirectoryError"
               ELSE "skip"
       IN  /\ fs' = IF outcome = "write"
                      THEN (tag_path :> File(CACHE_TAG_CONTENTS)) @@ fs
                      ELSE fs
           /\ written' = IF outcome = "write" THEN Append(written, tag_path)
                         ELSE written
           /\ IF outcome \in {"AssertionError", "NotADirectoryError"}
                THEN /\ mc_state' = "raised"
                     /\ mc_error' = outcome
                     /\ mc_failed_at' = dir_path
                     /\ cache_dirs' = <<>>
                ELSE /\ mc_state' = "running"
                     /\ cache_dirs' = Tail(cache_dirs)
                     /\ UNCHANGED <<mc_error, mc_failed_at>>
    /\ UNCHANGED <<caches, fs_initial, fs_before, mc_calls, mc_prev>>
    /\ UNCHANGED <<pc, operation, clock, deadline, daemonVars, spawned, result,
                   envVars, proc_env, exit_status, cfgVars, runVars>>

\* The loop is through: mark_caches returns.
MarkCachesReturn ==
    /\ mc_state = "running"
    /\ cache_dirs = <<>>
    /\ mc_state' = "returned"
    /\ UNCHANGED <<fs, caches, fs_initial, cache_dirs, mc_error, mc_failed_at, fs_before,
                   written, mc_calls, mc_prev>>
    /\ UNCHANGED <<pc, operation, clock, deadline, daemonVars, spawned, result,
                   envVars, proc_env, exit_status, cfgVars, runVars>>

\* The program is started once more, on the file system the last run left.
MarkCachesAgain ==
    /\ mc_state \in {"returned", "raised"}
    /\ mc_calls < MaxMarkCalls
    /\ mc_state' = "start"
    /\ mc_prev' = mc_state
    /\ mc_error' = "none"
    /\ mc_failed_at' = <<>>
    /\ UNCHANGED <<fs, caches, fs_initial, cache_dirs, fs_before, written, mc_calls>>
    /\ UNCHANGED <<pc, operation, clock, deadline, daemonVars, spawned, result,
                   envVars, proc_env, exit_status, cfgVars, runVars>>

\* mark_caches has not been called yet.
CachesInit ==
    /\ cache_dirs = <<>>
    /\ mc_state = "start"
    /\ mc_error = "none"
    /\ mc_failed_at = <<>>
    /\ fs_before = EmptyTree
    /\ fs_initial = fs
    /\ written = <<>>
    /\ mc_calls = 0
    /\ mc_prev = "none"

\* In the specifications of the daemon and of parse_config there are no
\* cache directories and mark_caches has returned.
CachesMarked ==
    /\ fs = EmptyTree
    /\ caches = <<>>
    /\ cache_dirs = <<>>
    /\ mc_state = "returned"
    /\ mc_error = "none"
    /\ mc_failed_at = <<>>
    /\ fs_before = EmptyTree
    /\ fs_initial = EmptyTree
    /\ written = <<>>
    /\ mc_calls = 1
    /\ mc_prev = "none"

-----------------------------------------------------------------------------
(* run_borg, run_create, run_prune, run_list, run_single *)

\* A string of the configuration or of the command is a sequence of pieces:
\* the names of a path and the "/" between them, or other text.

\* Path(string): the names of the path, "." and repeated "/" dropped, and
\* whether it starts at the root.
ParsePath(string) ==
    [abs |-> string # <<>> /\ string[1] = "/",
     parts |-> SelectSeq(string, LAMBDA piece : piece \notin {"/", "."})]

\* Path(first, second): a second path that starts at the root stands alone
JoinPath(first, second) ==
    IF second.abs THEN second
    ELSE [abs |-> first.abs, parts |-> first.parts \o second.parts]

\* The directory the program runs in.
Cwd == <<"home", "user">>

\* Each ".." removes the name before it; at the root it is dropped.
RECURSIVE Collapse(_, _)
Collapse(done, rest) ==
    IF rest = <<>> THEN done
    ELSE IF Head(rest) = ".."
      THEN Collapse(IF done = <<>> THEN done ELSE SubSeq(done, 1, Len(done) - 1),
                    Tail(rest))
    ELSE Collapse(Append(done, Head(rest)), Tail(rest))

\* path.resolve(): absolute, from the working directory when the path is
\* relative, and without ".." (no name of the model is a symbolic link)
Resolve(path) ==
    [abs |-> TRUE,
     parts |-> Collapse(<<>>, IF path.abs THEN path.parts ELSE Cwd \o path.parts)]

RECURSIVE JoinNames(_)
JoinNames(parts) ==
    IF Len(parts) <= 1 THEN parts
    ELSE <<Head(parts), "/">> \o JoinNames(Tail(parts))

\* str(path)
PathStr(path) ==
    IF path.parts = <<>> THEN (IF path.abs THEN <<"/">> ELSE <<".">>)
    ELSE (IF path.abs THEN <<"/">> ELSE <<>>) \o JoinNames(path.parts)

\* dict.get(key, default)
Get(dict, key, default) == IF key \in DOMAIN dict THEN dict[key] ELSE default

\* archive_name is None
NoName == <<>>

\* full_repo_name = str(Path(config['borg']['repository']).resolve()), and
\* '::' + archive_name appended to it when there is one
FullRepoName(archive_name) ==
    PathStr(Resolve(ParsePath(config_run.borg.repository)))
        \o (IF archive_name # NoName THEN <<"::">> \o archive_name ELSE <<>>)

\* command = [config['borg']['binary']] + [action] + flags +
\*           [full_repo_name] + post_flags
Command(action, flags, post_flags, archive_name) ==
    <<config_run.borg.binary>> \o <<action>> \o flags
        \o <<FullRepoName(archive_name)>> \o post_flags

\* run_create: '--exclude' and the resolved path, for each exclude in turn
RECURSIVE Excludes(_)
Excludes(excludes) ==
    IF excludes = <<>> THEN <<>>
    ELSE << <<"--exclude">>,
            PathStr(Resolve(JoinPath(
                ParsePath(config_run.create.backup_directory),
                ParsePath(Head(excludes))))) >>
         \o Excludes(Tail(excludes))

\* default_flags
DefaultFlags ==
    << <<"--progress">>, <<"--filter">>, <<"AME">>, <<"--list">>, <<"--show-rc">> >>

CreateFlagsUserFirst ==
    DefaultFlags \o Get(config_run.borg, "flags", <<>>)
        \o Excludes(Get(config_run.create, "excludes", <<>>))

\* flags = default_flags + excludes + config['borg'].get('flags', [])
CreateFlags ==
    DefaultFlags \o Excludes(Get(config_run.create, "excludes", <<>>))
        \o Get(config_run.borg, "flags", <<>>)

\* post_flags = [config['create']['backup_directory']]
CreatePostFlags == <<config_run.create.backup_directory>>

\* flags = config['prune'].get('flags', [])
PruneFlags == Get(config_run.prune, "flags", <<>>)

\* The configurations the commands are assembled from: a repository and a
\* backup directory given from the root or relative to the working
\* directory, with and without "..", no to two exclusions relative to the
\* backup directory (one of them twice, one leading out of it), with and
\* without flags.
RunConfigs ==
    { [borg |-> b, create |-> c, prune |-> p] :
        b \in { [binary |-> <<"/", "usr", "/", "bin", "/", "borg">>, repository |-> r] :
                   r \in { <<"/", "srv", "/", "repo">>, <<"repo">> } }
              \cup
              { [binary |-> <<"borg">>, repository |-> r, flags |-> f] :
                   r \in { <<"/", "srv", "/", "repo">>, <<"..", "/", "repo">> },
                   f \in { <<>>, << <<"--stats">>, <<"--compression">>, <<"lz4">> >> } },
        c \in { [backup_directory |-> d, name |-> <<"{hostname}-{now}">>] :
                   d \in { <<"/", "data">>, <<"data">>, <<"/", "data", "/">> } }
              \cup
              { [backup_directory |-> d, name |-> <<"daily">>, excludes |-> e] :
                   d \in { <<"/", "data">>, <<"data">>, <<"/", "srv", "/", "..", "/", "data">> },
                   e \in { <<>>, << <<"tmp">> >>,
                           << <<"tmp">>, <<"var", "/", "cache">> >>,
                           << <<"var", "/", "cache">>, <<"tmp">> >>,
                           << <<"tmp">>, <<"tmp">> >>,
                           << <<".", "/", "tmp">>, <<"..", "/", "other">> >> } },
        p \in { <<>>, [flags |-> <<>>],
                [flags |-> << <<"--keep-daily">>, <<"7">> >>] } }

\* The configuration of the specifications that are about something else.
DefaultRunConfig ==
    [borg |-> [binary |-> <<"borg">>, repository |-> <<"/", "srv", "/", "repo">>],
     create |-> [backup_directory |-> <<"/", "data">>, name |-> <<"daily">>,
                 excludes |-> << <<"tmp">> >>],
     prune |-> [flags |-> << <<"--keep-daily">>, <<"7">> >>]]

RunBorgResultAlways(rc) == TRUE

\* proc.returncode == 0
RunBorgResult(rc) == rc = 0

\* Where control goes when the dispatched run_* function returns.
ReturnPc == IF operation = "daemon" THEN "returned" ELSE "exit"

\* run_borg: spawn the process for `action`, block until it exits.
RunBorg(action, flags, post_flags, archive_name, rc, d) ==
    /\ clock + d <= deadline
    /\ clock' = clock + d
    /\ command' = Command(<<action>>, flags, post_flags, archive_name)
    /\ spawned' = Append(spawned, [action |-> action, returncode |-> rc])
    /\ proc_env' = env

\* run_create, as the first step of run_single or on its own
RunCreate ==
    /\ pc = "create"
    /\ \E rc \in ExitCodes, d \in Durations :
        /\ RunBorg("create", CreateFlags, CreatePostFlags,
                   config_run.create.name, rc, d)
        /\ IF operation = "create"
             THEN pc' = ReturnPc /\ result' = RunBorgResult(rc)
             ELSE IF RunBorgResult(rc)
                    THEN pc' = "prune" /\ result' = result
                    ELSE pc' = ReturnPc /\ result' = FALSE
    /\ UNCHANGED <<operation, deadline, daemonVars, envVars, exit_status,
                   cfgVars, mcVars, config_run>>

\* run_prune, as the second step of run_single or on its own
RunPrune ==
    /\ pc = "prune"
    /\ \E rc \in ExitCodes, d \in Durations :
        /\ RunBorg("prune", PruneFlags, <<>>, NoName, rc, d)
        /\ pc' = ReturnPc
        /\ result' = RunBorgResult(rc)
    /\ UNCHANGED <<operation, deadline, daemonVars, envVars, exit_status,
                   cfgVars, mcVars, config_run>>

\* run_list
RunList ==
    /\ pc = "list"
    /\ \E rc \in ExitCodes, d \in Durations :
        /\ RunBorg("list", <<>>, <<>>, NoName, rc, d)
        /\ pc' = ReturnPc
        /\ result' = RunBorgResult(rc)
    /\ UNCHANGED <<operation, deadline, daemonVars, envVars, exit_status,
                   cfgVars, mcVars, config_run>>

-----------------------------------------------------------------------------
(* run_daemon *)

SuccessTimeAtCompletion == clock

\* last_known_success = now, the clock read at the top of the iteration
SuccessTime == now

LastKnownSuccessAlways(ok) == SuccessTime

LastKnownSuccessNever(ok) == last_known_success

\* if success: last_known_success = now
LastKnownSuccessAfter(ok) == IF ok THEN SuccessTime ELSE last_known_success

\* The top of the loop: read the clock, compute the targets, decide.
Check ==
    /\ pc = "loop"
    /\ now' = clock
    /\ prev_target' = PrevTarget(clock)
    /\ next_target' = NextTarget(PrevTarget(clock))
    /\ due' = Due(last_known_success, PrevTarget(clock))
    /\ pc' = IF due' THEN "create" ELSE "yield"
    /\ spawned' = <<>>
    /\ UNCHANGED <<operation, clock, deadline, last_known_success, success,
                   sleep_time, retrying, succeeded_in, failed_in, prev_end,
                   prev_next_target, overslept, result, envVars, proc_env,
                   exit_status, cfgVars, mcVars,
                   runVars>>

\* success = run_single(config, env); if success: last_known_success = now
Record ==
    /\ pc = "returned"
    /\ success' = result
    /\ last_known_success' = LastKnownSuccessAfter(result)
    /\ retrying' = ~result
    /\ succeeded_in' = IF result THEN now ELSE succeeded_in
    /\ failed_in' = IF result THEN NoTime ELSE now
    /\ pc' = "yield"
    /\ UNCHANGED <<operation, clock, deadline, now, prev_target, next_target,
                   due, sleep_time, prev_end, prev_next_target, overslept,
                   spawned, result, envVars, proc_env,
                   exit_status, cfgVars, mcVars,
                   runVars>>

\* sleep_time = (next_target - datetime.now()).total_seconds(), clamped
Yield ==
    /\ pc = "yield"
    /\ sleep_time' = SleepTime(next_target, clock)
    /\ pc' = "sleep"
    /\ UNCHANGED <<operation, clock, deadline, last_known_success, now,
                   prev_target, next_target, due, success, retrying,
                   succeeded_in, failed_in, prev_end, prev_next_target,
                   overslept, spawned, result, envVars, proc_env,
                   exit_status, cfgVars, mcVars,
                   runVars>>

\* sleep(sleep_time), then the next iteration; the locals of the finished
\* iteration are dead.
Sleep ==
    /\ pc = "sleep"
    /\ \E late \in 0..MaxOversleepTicks :
        /\ clock + sleep_time + late * Tick <= deadline
        /\ clock' = clock + sleep_time + late * Tick
        /\ overslept' = late * Tick
    /\ prev_end' = clock
    /\ prev_next_target' = next_target
    /\ pc' = "loop"
    /\ now' = NoTime
    /\ prev_target' = NoTime
    /\ next_target' = NoTime
    /\ due' = FALSE
    /\ success' = FALSE
    /\ sleep_time' = 0
    /\ spawned' = <<>>
    /\ result' = FALSE
    /\ UNCHANGED <<operation, deadline, last_known_success, retrying,
                   succeeded_in, failed_in, envVars, proc_env, exit_status,
                   cfgVars, mcVars,
                   runVars>>

\* run_daemon entered: last_known_success = datetime.fromtimestamp(0)
InitDaemon ==
    /\ pc = "loop"
    /\ operation = "daemon"
    /\ clock \in StartClocks
    /\ deadline = clock + MaxElapsedTicks * Tick
    /\ last_known_success = Epoch
    /\ now = NoTime
    /\ prev_target = NoTime
    /\ next_target = NoTime
    /\ due = FALSE
    /\ success = FALSE
    /\ sleep_time = 0
    /\ retrying = FALSE
    /\ succeeded_in = NoTime
    /\ failed_in = NoTime
    /\ prev_end = NoTime
    /\ prev_next_target = NoTime
    /\ overslept = 0
    /\ spawned = <<>>
    /\ result = FALSE
    /\ os_environ = [HOME |-> "inherited-1"]
    /\ config_borg = [passphrase_command |-> "pass-command"]
    /\ passphrase = "typed"
    /\ env = PassphraseEnv
    /\ proc_env = NoEnv
    /\ exit_status = NoCode
    /\ ConfigResolved
    /\ CachesMarked
    /\ config_run = DefaultRunConfig
    /\ command = <<>>

Next ==
    \/ Check
    \/ RunCreate
    \/ RunPrune
    \/ Record
    \/ Yield
    \/ Sleep

Spec == InitDaemon /\ [][Next]_vars

-----------------------------------------------------------------------------
(* main *)

Operations == {"create", "prune", "list", "single", "daemon"}

\* The status the program exits with when main returns: nothing in main
\* or after it passes a status to the interpreter.
ExitStatusOfMain == 0

\* The status the interpreter exits with on an exception nothing catches.
ExitStatusOfTraceback == 1

ReturnedOrRaised(state) == state \in {"returned", "raised"}

\* A call made outside any try statement is followed by the next statement
\* only when it returns.
Returned(state) == state = "returned"

\* config = parse_config(Path(arguments.config)) has returned
MainConfigParsed ==
    /\ pc = "parse_config"
    /\ Returned(cfg_state)
    /\ pc' = "mark_caches"
    /\ UNCHANGED <<operation, clock, deadline, daemonVars, spawned, result,
                   envVars, proc_env, exit_status, cfgVars, mcVars, runVars>>

\* mark_caches(...) has returned
MainCachesMarked ==
    /\ pc = "mark_caches"
    /\ Returned(mc_state)
    /\ pc' = "setenv"
    /\ UNCHANGED <<operation, clock, deadline, daemonVars, spawned, result,
                   envVars, proc_env, exit_status, cfgVars, mcVars, runVars>>

\* parse_config or mark_caches has raised: main has no handler for it, the
\* interpreter prints the traceback and exits.
MainAbort ==
    /\ \/ pc = "parse_config" /\ cfg_state = "raised"
       \/ pc = "mark_caches" /\ mc_state = "raised"
    /\ pc' = "exited"
    /\ exit_status' = ExitStatusOfTraceback
    /\ UNCHANGED <<operation, clock, deadline, daemonVars, spawned, result,
                   envVars, proc_env, cfgVars, mcVars, runVars>>

\* The configuration files main is started on: one file; a file and its
\* import; an import that does not exist; a file that imports itself.
MainFileSystems ==
    { [name \in {"main"} |-> Document(Absent, Str("1"))],
      [name \in {"main", "a"} |->
          IF name = "main" THEN Document(List(<<"a">>), Str("1"))
          ELSE Document(Absent, Str("2"))],
      [name \in {"main", "b"} |->
          IF name = "main" THEN Document(Str("b"), Absent) ELSE NoFile],
      [name \in {"main"} |-> Document(Str("main"), Absent)] }

\* The backup directories main is started on: without c1, with c1 as an
\* untagged directory, as a directory with a foreign CACHEDIR.TAG, and as a
\* regular file.
MainCacheTrees ==
    { EmptyTree,
      Tree("c1", "dir", NoNode),
      Tree("c1", "dir", File(<<"Signature: 00000000000000000000000000000000", "\n">>)),
      Tree("c1", "file", NoNode) }

\* set the passphrase environment
SetEnv ==
    /\ pc = "setenv"
    /\ env' = PassphraseEnv
    /\ pc' = "dispatch"
    /\ UNCHANGED <<operation, clock, deadline, daemonVars, spawned, result,
                   os_environ, config_borg, passphrase, proc_env, exit_status,
                   cfgVars, mcVars,
                   runVars>>

\* dispatch the task; run_daemon begins with
\* last_known_success = datetime.fromtimestamp(0)
Dispatch ==
    /\ pc = "dispatch"
    /\ pc' = CASE operation = "create" -> "create"
               [] operation = "prune" -> "prune"
               [] operation = "list" -> "list"
               [] operation = "single" -> "create"
               [] operation = "daemon" -> "loop"
    /\ last_known_success' =
            IF operation = "daemon" THEN Epoch ELSE last_known_success
    /\ UNCHANGED <<operation, clock, deadline, now, prev_target, next_target,
                   due, success, sleep_time, retrying, succeeded_in, failed_in,
                   prev_end, prev_next_target, overslept, spawned,
                   result, envVars, proc_env, exit_status, cfgVars, mcVars,
                   runVars>>

\* main returns and the interpreter exits
Exit ==
    /\ pc = "exit"
    /\ pc' = "exited"
    /\ exit_status' = ExitStatusOfMain
    /\ UNCHANGED <<operation, clock, deadline, daemonVars, spawned, result,
                   envVars, proc_env, cfgVars, mcVars,
                   runVars>>

InitMain ==
    /\ pc = "parse_config"
    /\ operation \in Operations
    /\ clock = Day + 2 * Hour
    /\ deadline = clock + MaxElapsedTicks * Tick
    /\ last_known_success = NoTime
    /\ now = NoTime
    /\ prev_target = NoTime
    /\ next_target = NoTime
    /\ due = FALSE
    /\ success = FALSE
    /\ sleep_time = 0
    /\ retrying = FALSE
    /\ succeeded_in = NoTime
    /\ failed_in = NoTime
    /\ prev_end = NoTime
    /\ prev_next_target = NoTime
    /\ overslept = 0
    /\ spawned = <<>>
    /\ result = FALSE
    /\ os_environ \in Environments
    /\ config_borg \in BorgSections
    /\ passphrase = "typed"
    /\ env = NoEnv
    /\ proc_env = NoEnv
    /\ exit_status = NoCode
    /\ files \in MainFileSystems
    /\ ConfigInit
    /\ fs \in MainCacheTrees
    /\ caches = <<"c1">>
    /\ CachesInit
    /\ config_run = DefaultRunConfig
    /\ command = <<>>

\* main up to the entry of run_daemon, and the single-shot operations to
\* the exit of the program.
NextMain ==
    \/ ParseConfigEnter
    \/ ParseConfigReturn
    \/ MainConfigParsed
    \/ MarkCachesCall
    \/ MarkCachesStep
    \/ MarkCachesReturn
    \/ MainCachesMarked
    \/ MainAbort
    \/ SetEnv
    \/ Dispatch
    \/ RunCreate
    \/ RunPrune
    \/ RunList
    \/ Exit

SpecMain == InitMain /\ [][NextMain]_vars

-----------------------------------------------------------------------------
(* The single-shot operations on every configuration of the commands *)

InitCommand ==
    /\ pc = "dispatch"
    /\ operation \in {"create", "prune", "single"}
    /\ config_run \in RunConfigs
    /\ command = <<>>
    /\ clock = Day + 2 * Hour
    /\ deadline = clock
    /\ last_known_success = NoTime
    /\ now = NoTime
    /\ prev_target = NoTime
    /\ next_target = NoTime
    /\ due = FALSE
    /\ success = FALSE
    /\ sleep_time = 0
    /\ retrying = FALSE
    /\ succeeded_in = NoTime
    /\ failed_in = NoTime
    /\ prev_end = NoTime
    /\ prev_next_target = NoTime
    /\ overslept = 0
    /\ spawned = <<>>
    /\ result = FALSE
    /\ os_environ = [HOME |-> "inherited-1"]
    /\ config_borg = [passphrase_command |-> "pass-command"]
    /\ passphrase = "typed"
    /\ env = PassphraseEnv
    /\ proc_env = NoEnv
    /\ exit_status = NoCode
    /\ ConfigResolved
    /\ CachesMarked

NextCommand ==
    \/ Dispatch
    \/ RunCreate
    \/ RunPrune
    \/ Exit

SpecCommand == InitCommand /\ [][NextCommand]_vars

-----------------------------------------------------------------------------
(* parse_config on its own *)

InitConfig ==
    /\ files \in FileSystems
    /\ ConfigInit
    /\ pc = "parse_config"
    /\ operation = "single"
    /\ clock = Day + 2 * Hour
    /\ deadline = clock
    /\ last_known_success = NoTime
    /\ now = NoTime
    /\ prev_target = NoTime
    /\ next_target = NoTime
    /\ due = FALSE
    /\ success = FALSE
    /\ sleep_time = 0
    /\ retrying = FALSE
    /\ succeeded_in = NoTime
    /\ failed_in = NoTime
    /\ prev_end = NoTime
    /\ prev_next_target = NoTime
    /\ overslept = 0
    /\ spawned = <<>>
    /\ result = FALSE
    /\ os_environ = <<>>
    /\ config_borg = <<>>
    /\ passphrase = "typed"
    /\ env = NoEnv
    /\ proc_env = NoEnv
    /\ exit_status = NoCode
    /\ CachesMarked
    /\ config_run = DefaultRunConfig
    /\ command = <<>>

NextConfig ==
    \/ ParseConfigEnter
    \/ ParseConfigReturn

SpecConfig == InitConfig /\ [][NextConfig]_vars

-----------------------------------------------------------------------------
(* mark_caches on its own, run and run again *)

InitCaches ==
    /\ fs \in CacheTrees
    /\ caches \in CachePatternLists
    /\ CachesInit
    /\ ConfigResolved
    /\ pc = "mark_caches"
    /\ operation = "single"
    /\ clock = Day + 2 * Hour
    /\ deadline = clock
    /\ last_known_success = NoTime
    /\ now = NoTime
    /\ prev_target = NoTime
    /\ next_target = NoTime
    /\ due = FALSE
    /\ success = FALSE
    /\ sleep_time = 0
    /\ retrying = FALSE
    /\ succeeded_in = NoTime
    /\ failed_in = NoTime
    /\ prev_end = NoTime
    /\ prev_next_target = NoTime
    /\ overslept = 0
    /\ spawned = <<>>
    /\ result = FALSE
    /\ os_environ = <<>>
    /\ config_borg = <<>>
    /\ passphrase = "typed"
    /\ env = NoEnv
    /\ proc_env = NoEnv
    /\ exit_status = NoCode
    /\ config_run = DefaultRunConfig
    /\ command = <<>>

NextCaches ==
    \/ MarkCachesCall
    \/ MarkCachesStep
    \/ MarkCachesReturn
    \/ MarkCachesAgain

SpecCaches == InitCaches /\ [][NextCaches]_vars

-----------------------------------------------------------------------------
(* The daemon loop: what is checked *)

\* The program is inside an iteration of run_daemon, past the due check.
InIteration == pc \in {"create", "prune", "returned", "yield", "sleep"}

\* run_single has been called in the current iteration.
CycleStarted == pc \in {"create", "prune", "returned"} \/ spawned # <<>>

\* run_single is being entered: nothing of it has run yet.
CycleStarting == pc = "create" /\ spawned = <<>>

\* The 3-hour bucket a time lies in (24 is a multiple of 3, so the buckets of
\* every day start at 00:00).
Bucket(t) == t \div (3 * Hour)

\* C1: in every iteration prev_target is the latest 3-hour boundary of now's
\* day at or before now, next_target is prev_target + 3 hours, and
\* prev_target <= now < next_target; run_single is started in the iteration
\* iff last_known_success < prev_target, strictly (until the cycle's success
\* has been recorded, last_known_success is still the value that was compared).
C1_DueIffBehindPrevTarget ==
    InIteration =>
        /\ prev_target \div Day = now \div Day
        /\ (prev_target % Day) % (3 * Hour) = 0
        /\ next_target = prev_target + 3 * Hour
        /\ prev_target <= now
        /\ now < next_target
        /\ ~success => (CycleStarted <=> last_known_success < prev_target)
        /\ success => CycleStarted

\* An iteration whose cycle is not started because last_known_success
\* equals prev_target: the last success was decided exactly at the boundary.
C1_Witness ==
    /\ pc = "yield"
    /\ ~CycleStarted
    /\ last_known_success = prev_target
    /\ prev_target < now

\* C2: last_known_success changes only in the step that records the outcome
\* of a due cycle that returned success, and becomes the now of that
\* iteration; every other step, and the recording of a failure, leaves it
\* unchanged.
C2_SuccessSetsDecisionTime ==
    [][/\ last_known_success' # last_known_success =>
            pc = "returned" /\ due /\ result /\ CycleStarted
       /\ (pc = "returned" /\ result) => last_known_success' = now
       /\ (pc = "returned" /\ ~result) => last_known_success' = last_known_success
      ]_vars

\* A success recorded after the cycle took time: last_known_success is the
\* decision time, earlier than the clock.
C2_Witness ==
    /\ pc = "yield"
    /\ success
    /\ last_known_success = now
    /\ now < clock

\* C3: after a successful cycle in an iteration whose now lies in a bucket,
\* no later iteration whose now lies in the same bucket starts a cycle.  And
\* the example: with last_known_success = epoch at 02:00 the cycle is due
\* with prev_target = 00:00 and next_target = 03:00, and after its success
\* the check at 02:30 is not due (02:00 of the day after the epoch's, the
\* date the model starts the daemon on).
C3_OncePerBucket ==
    /\ (CycleStarting /\ succeeded_in # NoTime) =>
            Bucket(succeeded_in) # Bucket(now)
    /\ (InIteration /\ now = Day + 2 * Hour /\ last_known_success = Epoch) =>
            /\ CycleStarted
            /\ prev_target = Day
            /\ next_target = Day + 3 * Hour
    /\ (InIteration /\ now = Day + 2 * Hour + 30 * Minute
          /\ succeeded_in = Day + 2 * Hour) =>
            ~CycleStarted

\* The check at 02:30 after the success of the cycle decided at 02:00,
\* which itself ran past 02:15.
C3_Witness ==
    /\ pc = "yield"
    /\ now = Day + 2 * Hour + 30 * Minute
    /\ succeeded_in = Day + 2 * Hour
    /\ ~CycleStarted

\* C4: the argument of sleep() is in [0, 900] seconds.
C4_SleepTimeBounded ==
    pc = "sleep" => (0 <= sleep_time /\ sleep_time <= 900)

\* The cycle overran its bucket: next_target is in the past at the end of
\* the iteration.
C4_Witness ==
    /\ pc = "sleep"
    /\ next_target < clock
    /\ sleep_time = 0

\* C5: once a due cycle has failed, and until a cycle succeeds, the program
\* stays in the loop, every iteration starts run_single, and each sleep
\* between them is asked to last at most 900 seconds.
C5_FailedCycleRetried ==
    /\ pc \in {"loop", "create", "prune", "returned", "yield", "sleep"}
    /\ (retrying /\ InIteration) => CycleStarted
    /\ (retrying /\ pc = "sleep") => sleep_time <= 900

\* After a failed cycle, a later iteration has started run_single again and
\* its create step has exited.
C5_Witness ==
    /\ retrying
    /\ pc = "prune"
    /\ Len(spawned) = 1

\* C6: run_single spawns create exactly once, and prune at most once and only
\* after create exited with status zero; it returns success exactly when
\* both exited with status zero.
C6_SingleShortCircuits ==
    /\ Len(spawned) <= 2
    /\ Len(spawned) >= 1 => spawned[1].action = "create"
    /\ Len(spawned) = 2 =>
            spawned[2].action = "prune" /\ spawned[1].returncode = 0
    /\ pc = "prune" => Len(spawned) = 1 /\ spawned[1].returncode = 0
    /\ pc = "returned" =>
            /\ Len(spawned) >= 1
            /\ spawned[1].returncode # 0 => Len(spawned) = 1 /\ ~result
            /\ result <=> (/\ Len(spawned) = 2
                           /\ spawned[1].returncode = 0
                           /\ spawned[2].returncode = 0)

\* create failed: run_single returned failure without spawning prune.
C6_Witness ==
    /\ pc = "returned"
    /\ Len(spawned) = 1
    /\ spawned[1].returncode # 0
    /\ ~result

\* This iteration follows one whose cycle failed.
AfterFailure == InIteration /\ retrying /\ failed_in # NoTime /\ now > failed_in

\* C15, as stated: the cycle that follows a failed cycle is started in a
\* later bucket than the one the failed cycle was started in, not while now
\* is still in that bucket.
C15_RetriedInLaterBucket ==
    (AfterFailure /\ CycleStarted) => Bucket(now) > Bucket(failed_in)

\* C15, amended: a failed cycle is absorbed and retried on the next wake-up.
\* The iteration that follows a failed cycle starts a cycle, in the bucket
\* of the failed one or in a later one, and it begins at most 900 seconds,
\* and however late sleep() returned, after the failed iteration ended.
C15_RetriedOnNextWakeUp ==
    AfterFailure =>
        /\ CycleStarted
        /\ Bucket(now) >= Bucket(failed_in)
        /\ now <= prev_end + 900 + overslept

\* A failed cycle is retried while now is still in the bucket it failed in.
C15_Witness ==
    /\ AfterFailure
    /\ CycleStarting
    /\ Bucket(now) = Bucket(failed_in)

\* The cycle of this iteration has failed.
FailedNow == failed_in # NoTime /\ failed_in = now

\* C17, as stated: after a failed cycle the loop sleeps for a strictly
\* positive time, however long the cycle took.
C17_PositiveSleepAfterFailure ==
    (pc = "sleep" /\ FailedNow) => sleep_time > 0

\* C17, amended: after a failed cycle the sleep time is strictly positive
\* exactly when the cycle ended before next_target, and the retry then
\* begins later than the failed iteration ended; a failed cycle that ends
\* at or after next_target is followed by a sleep of zero seconds.
C17_SleepAfterFailure ==
    /\ (pc = "sleep" /\ FailedNow) =>
           /\ clock < next_target => sleep_time > 0
           /\ clock >= next_target => sleep_time = 0
    /\ (AfterFailure /\ prev_end < prev_next_target) => now > prev_end

\* A failed cycle that took time and ended before next_target is followed
\* by a positive sleep.
C17_Witness ==
    /\ pc = "sleep"
    /\ FailedNow
    /\ clock > now
    /\ clock < next_target
    /\ sleep_time > 0

\* C19: last_known_success never exceeds the clock; it is the epoch or the
\* `now` of an iteration whose cycle succeeded, a time of the bucket that
\* iteration's targets span; and the first iteration after the daemon
\* started is due.
C19_FirstIterationDue ==
    /\ last_known_success <= clock
    /\ \/ last_known_success = Epoch
       \/ /\ last_known_success = succeeded_in
          /\ PrevTarget(succeeded_in) <= last_known_success
          /\ last_known_success < NextTarget(PrevTarget(succeeded_in))
    /\ (InIteration /\ prev_end = NoTime) => due

\* The statement of C19 without its last sentence.
C19_ExceptFirstIteration ==
    /\ last_known_success <= clock
    /\ \/ last_known_success = Epoch
       \/ /\ last_known_success = succeeded_in
          /\ PrevTarget(succeeded_in) <= last_known_success
          /\ last_known_success < NextTarget(PrevTarget(succeeded_in))
    /\ (InIteration /\ prev_end = NoTime /\ Bucket(now) > Bucket(Epoch)) => due

\* last_known_success never decreases.
C19_NeverDecreases == [][last_known_success' >= last_known_success]_vars

\* C20, as stated: an iteration begins at most at the later of the end of
\* the iteration before it and that iteration's next_target, and at most
\* 900 seconds after that end; after an iteration that ended before its
\* next_target, the first iteration at or after that boundary begins at the
\* boundary and starts a cycle.
C20_WakeUpAtBoundary ==
    (InIteration /\ prev_end # NoTime) =>
        /\ now <= Max(prev_end, prev_next_target)
        /\ now <= prev_end + 900
        /\ (prev_end < prev_next_target /\ now >= prev_next_target) =>
               now = prev_next_target /\ CycleStarted

\* C20, amended: the time sleep() is asked to end at is at most the later
\* of the end of the iteration and next_target, and at most 900 seconds
\* after that end; the next iteration begins later than that only by as
\* much as sleep() returned late.  After an iteration that ended before its
\* next_target, the first iteration at or after that boundary begins at the
\* boundary when sleep() returned on time, and it starts a cycle in the
\* bucket that begins there.
C20_SleepAimsAtBoundary ==
    /\ pc = "sleep" =>
           /\ clock + sleep_time <= Max(clock, next_target)
           /\ sleep_time <= 900
    /\ (InIteration /\ prev_end # NoTime) =>
           /\ now - overslept <= Max(prev_end, prev_next_target)
           /\ now - overslept <= prev_end + 900
           /\ (prev_end < prev_next_target /\ now >= prev_next_target) =>
                  /\ overslept = 0 => now = prev_next_target
                  /\ prev_target = prev_next_target
                  /\ CycleStarted

\* After an iteration that ended before its next_target, sleep() returned
\* on time and the iteration began at the boundary, starting a cycle.
C20_Witness ==
    /\ InIteration
    /\ prev_end # NoTime
    /\ prev_end < prev_next_target
    /\ overslept = 0
    /\ now = prev_next_target
    /\ pc = "create"

-----------------------------------------------------------------------------
(* The commands: what is checked *)

\* The action of the process spawned last.
LastAction == spawned[Len(spawned)].action

\* Where a path given in the configuration leads: from the root when it
\* begins with "/", from the working directory otherwise.
Denotes(string) == Resolve(ParsePath(string))

\* backup_directory/exclude
Below(directory, name) == directory \o <<"/">> \o name

\* The string is the resolved form of the path `string` leads to.
IsResolvedFormOf(arg, string) ==
    /\ arg # <<>> /\ arg[1] = "/"
    /\ \A i \in 1..Len(arg) : arg[i] \notin {".", ".."}
    /\ Denotes(arg) = Denotes(string)
    /\ arg = PathStr(Denotes(string))

\* C16: the command of run_create is, in order: the binary, 'create', the
\* five default flags, for each configured exclusion, once and in the
\* configured order, '--exclude' and the path backup_directory/exclude (in
\* resolved form), the flags of borg.flags, the repository (in resolved
\* form) followed by '::' and create.name, and last the backup directory as
\* the configuration gives it.  The command of run_prune is the binary,
\* 'prune', the flags of prune.flags and nothing else before the
\* repository (in resolved form), which has no suffix and nothing after it.
C16_CommandsAssembled ==
    LET excludes == Get(config_run.create, "excludes", <<>>)
        user == Get(config_run.borg, "flags", <<>>)
        prune == Get(config_run.prune, "flags", <<>>)
        n == Len(excludes)
        m == Len(user)
        k == Len(prune)
        repo == command[Len(command) - 1]
    IN  /\ (spawned # <<>> /\ LastAction = "create") =>
               /\ Len(command) = 2 + 5 + 2 * n + m + 2
               /\ command[1] = config_run.borg.binary
               /\ command[2] = <<"create">>
               /\ SubSeq(command, 3, 7) =
                      << <<"--progress">>, <<"--filter">>, <<"AME">>,
                         <<"--list">>, <<"--show-rc">> >>
               /\ \A i \in 1..n :
                      /\ command[7 + 2 * i - 1] = <<"--exclude">>
                      /\ IsResolvedFormOf(command[7 + 2 * i],
                             Below(config_run.create.backup_directory, excludes[i]))
               /\ SubSeq(command, 8 + 2 * n, 7 + 2 * n + m) = user
               /\ Len(repo) >= 3
               /\ SubSeq(repo, Len(repo) - 1, Len(repo)) =
                      <<"::">> \o config_run.create.name
               /\ IsResolvedFormOf(SubSeq(repo, 1, Len(repo) - 2),
                                   config_run.borg.repository)
               /\ command[Len(command)] = config_run.create.backup_directory
        /\ (spawned # <<>> /\ LastAction = "prune") =>
               /\ Len(command) = 2 + k + 1
               /\ command[1] = config_run.borg.binary
               /\ command[2] = <<"prune">>
               /\ SubSeq(command, 3, 2 + k) = prune
               /\ IsResolvedFormOf(command[Len(command)], config_run.borg.repository)
               /\ \A i \in 1..Len(command[Len(command)]) :
                      command[Len(command)][i] # "::"

\* run_create has spawned a command with two exclusions and with user flags.
C16_Witness ==
    /\ spawned # <<>>
    /\ LastAction = "create"
    /\ Len(Get(config_run.create, "excludes", <<>>)) = 2
    /\ Get(config_run.borg, "flags", <<>>) # <<>>
    /\ Len(command) = 16

\* run_prune has spawned a command with the flags of prune.flags, on a
\* configuration that has borg.flags too.
C16_PruneSpawned ==
    /\ spawned # <<>>
    /\ LastAction = "prune"
    /\ Get(config_run.borg, "flags", <<>>) # <<>>
    /\ Len(command) = 5

-----------------------------------------------------------------------------
(* main: what is checked *)

SingleShot == {"create", "prune", "list", "single"}

\* The exit status of the last external process: the one whose failure ends
\* a single-shot operation.
LastReturnCode == spawned[Len(spawned)].returncode

\* C7: on create, prune, list and single, when the external tool exits with
\* a non-zero status, the program exits with that status.
C7_ExitCodePropagated ==
    (pc = "exited" /\ operation \in SingleShot /\ spawned # <<>>
        /\ LastReturnCode # 0) =>
        exit_status = LastReturnCode

PassphraseNames == {"BORG_PASSCOMMAND", "BORG_PASSPHRASE"}

\* C8: the environment handed to the external process holds exactly one of
\* BORG_PASSCOMMAND and BORG_PASSPHRASE (BORG_PASSCOMMAND when
\* borg.passphrase_command is configured, BORG_PASSPHRASE otherwise), and
\* every other variable is the inherited one.
C8_ExactlyOnePassphraseVariable ==
    spawned # <<>> =>
        /\ DOMAIN proc_env \cap PassphraseNames =
                IF "passphrase_command" \in DOMAIN config_borg
                  THEN {"BORG_PASSCOMMAND"}
                  ELSE {"BORG_PASSPHRASE"}
        /\ DOMAIN proc_env \ PassphraseNames = DOMAIN os_environ \ PassphraseNames
        /\ \A n \in DOMAIN os_environ \ PassphraseNames : proc_env[n] = os_environ[n]

\* main is still at its startup: in parse_config or in mark_caches.
AtStartup == pc \in {"parse_config", "mark_caches"}

\* C14: startup errors are fatal before any scheduling.  Once parse_config
\* or mark_caches has raised, the program is at that call or has exited
\* with a failure status, no external process has been spawned and
\* run_daemon has not been entered; and a process is spawned, or any
\* statement after the two calls reached, only when both have returned.
C14_StartupErrorsFatal ==
    /\ (cfg_state = "raised" \/ mc_state = "raised") =>
           /\ spawned = <<>>
           /\ proc_env = NoEnv
           /\ AtStartup \/ (pc = "exited" /\ exit_status # 0)
    /\ (spawned # <<>> \/ ~(AtStartup \/ pc = "exited")) =>
           cfg_state = "returned" /\ mc_state = "returned"
    /\ pc = "mark_caches" => cfg_state = "returned"

\* The program has exited on a CACHEDIR.TAG with a foreign first line,
\* after its configuration was resolved, having been asked to run the
\* daemon.
C14_Witness ==
    /\ pc = "exited"
    /\ operation = "daemon"
    /\ cfg_state = "returned"
    /\ mc_state = "raised"
    /\ mc_error = "AssertionError"
    /\ spawned = <<>>

\* The program has exited on a configuration that could not be resolved.
C14_ConfigFailed ==
    /\ pc = "exited"
    /\ cfg_state = "raised"
    /\ mc_state = "start"
    /\ spawned = <<>>

\* The daemon loop is entered after both calls returned.
C14_DaemonEntered == pc = "loop" /\ mc_state = "returned" /\ written # <<>>

-----------------------------------------------------------------------------
(* The configuration cascade: what is checked *)

\* The files a file names in its imports (none when it does not exist).
ImportedBy(name) ==
    IF files[name] = NoFile THEN {}
    ELSE {ImportsOf(files[name])[i] : i \in 1..Len(ImportsOf(files[name]))}

\* The files reached from the files of `from` along at most k imports.
RECURSIVE ReachableIn(_, _)
ReachableIn(from, k) ==
    IF k = 0 THEN from
    ELSE ReachableIn(from \cup UNION {ImportedBy(name) : name \in from}, k - 1)

Reachable(from) == ReachableIn(from, Cardinality(DOMAIN files))

\* The import graph reachable from the starting file has a cycle.
ImportCycle ==
    \E name \in Reachable({RootPath}) : name \in Reachable(ImportedBy(name))

RECURSIVE Power2(_)
Power2(k) == IF k = 0 THEN 1 ELSE 2 * Power2(k - 1)

\* C11: parse_config ends by itself exactly on an acyclic import graph.  On
\* a graph with a cycle (a file importing itself included) it never returns
\* a configuration; nothing detects the cycle, so a file that is being
\* parsed is entered again and the recursion goes on until the interpreter
\* refuses another call.  On an acyclic graph (a diamond included) no file
\* is entered while it is being parsed, the interpreter's limit is never
\* the reason it ends, and it has ended after at most 2^(files - 1) files
\* were read; until it has ended it can always take its next step.
C11_TerminatesIffAcyclic ==
    /\ cfg_state \in {"start", "running"} => ENABLED NextConfig
    /\ IF ImportCycle
         THEN cfg_state # "returned"
         ELSE /\ cfg_error # "RecursionError"
              /\ reads <= Power2(Cardinality(DOMAIN files) - 1)
              /\ Len(stack) <= Cardinality(DOMAIN files)
              /\ \A i \in 1..Len(stack) : \A j \in (i + 1)..Len(stack) :
                     stack[i].path # stack[j].path

\* The recursion has reached the interpreter's limit on a cycle: the
\* starting file is being parsed for the third time at least.
C11_Witness ==
    /\ ImportCycle
    /\ Len(stack) = MaxRecursionDepth
    /\ Top.path = RootPath
    /\ Cardinality({i \in 1..Len(stack) : stack[i].path = RootPath}) >= 3

\* A diamond has been resolved: b is imported by main and by a, and was
\* read twice.
C11_DiamondReturned ==
    /\ ~ImportCycle
    /\ cfg_state = "returned"
    /\ "b" \in ImportedBy(RootPath) /\ "b" \in ImportedBy("a")
    /\ "a" \in ImportedBy(RootPath)
    /\ reads = 4

\* A cycle has ended in RecursionError.
C11_CycleRaised == ImportCycle /\ cfg_error = "RecursionError"

\* The result `got` holds the value `want` of the overriding source: a
\* string or a list as it is; a mapping as a mapping that holds each of its
\* keys in turn.
RECURSIVE HoldsValue(_, _)
HoldsValue(got, want) ==
    IF IsDict(want)
      THEN /\ IsDict(got)
           /\ \A key \in DOMAIN want.d :
                /\ key \in DOMAIN got.d
                /\ HoldsValue(got.d[key], want.d[key])
      ELSE got = want

\* C9: for every key of the importing file that an imported configuration
\* holds too, parse_config returns the importer's value, whatever the shapes
\* of the two values; two mappings are merged key by key (the keys only the
\* import has are kept), and a list is replaced wholesale.
C9_ImporterWins ==
    /\ cfg_error # UpdateError
    /\ cfg_state = "returned" =>
        \A key \in DOMAIN files[RootPath].d \cap DOMAIN imported.d :
            LET own == files[RootPath].d[key]
                inherited == imported.d[key]
            IN  /\ key \in DOMAIN cfg_ret.d
                /\ HoldsValue(cfg_ret.d[key], own)
                /\ (IsDict(own) /\ IsDict(inherited)) =>
                        \A sub \in DOMAIN inherited.d \ DOMAIN own.d :
                            /\ sub \in DOMAIN cfg_ret.d[key].d
                            /\ cfg_ret.d[key].d[sub] = inherited.d[sub]

\* The files parse_config(path) reads, in the order their contents are
\* applied: depth-first, the imports in listed order, the importer last.
RECURSIVE Sources(_)
RECURSIVE SourcesOfImports(_, _)
SourcesOfImports(imports, i) ==
    IF i > Len(imports) THEN <<>>
    ELSE Sources(imports[i]) \o SourcesOfImports(imports, i + 1)
Sources(path) == SourcesOfImports(ImportsOf(files[path]), 1) \o <<path>>

\* The key paths of a configuration, and the value at a key path.
RECURSIVE KeyPaths(_)
KeyPaths(v) ==
    IF IsDict(v)
      THEN UNION {{<<key>>} \cup {<<key>> \o q : q \in KeyPaths(v.d[key])} :
                    key \in DOMAIN v.d}
      ELSE {}

RECURSIVE ValueAt(_, _)
ValueAt(v, p) ==
    IF p = <<>> THEN v
    ELSE IF IsDict(v) /\ Head(p) \in DOMAIN v.d
      THEN ValueAt(v.d[Head(p)], Tail(p))
      ELSE Absent

\* Source number i gives key path p a value.
HasPath(sources, i, p) == ValueAt(files[sources[i]], p) # Absent

\* A source of higher precedence than number i replaces the mapping that
\* p lies in by a string or a list.
Overridden(sources, i, p) ==
    \E j \in (i + 1)..Len(sources) : \E n \in 1..(Len(p) - 1) :
        LET above == ValueAt(files[sources[j]], SubSeq(p, 1, n))
        IN  above # Absent /\ ~IsDict(above)

\* C10: over an acyclic import tree the effective configuration holds, for
\* every key path of any source, the value of the most specific source that
\* has it (importer > later import > earlier import, depth-first), and the
\* key paths of lower-precedence sources are kept.
C10_MostSpecificSourceWins ==
    /\ cfg_error # UpdateError
    /\ cfg_state = "returned" =>
        LET sources == Sources(RootPath)
            paths == UNION {KeyPaths(files[sources[i]]) : i \in 1..Len(sources)}
        IN  \A p \in paths :
                LET last == CHOOSE i \in 1..Len(sources) :
                                /\ HasPath(sources, i, p)
                                /\ \A j \in (i + 1)..Len(sources) :
                                        ~HasPath(sources, j, p)
                    want == ValueAt(files[sources[last]], p)
                    got == ValueAt(cfg_ret, p)
                IN  ~Overridden(sources, last, p) =>
                        IF IsDict(want) THEN IsDict(got) ELSE got = want

\* No source gives a mapping to a key path that a source of lower precedence
\* gives a string or a list.
ShapesFit ==
    LET sources == Sources(RootPath)
    IN  \A i \in 1..Len(sources) : \A j \in (i + 1)..Len(sources) :
            \A p \in KeyPaths(files[sources[j]]) :
                IsDict(ValueAt(files[sources[j]], p)) =>
                    LET below == ValueAt(files[sources[i]], p)
                    IN  below = Absent \/ IsDict(below)

\* Where every file exists and the shapes fit, parse_config returns and both
\* statements above hold of what it returns: they fail on the other file
\* systems only.
WhereShapesFit ==
    (~ImportCycle /\ (\A name \in DOMAIN files : files[name] # NoFile)
        /\ ShapesFit) =>
        /\ cfg_state \in {"start", "running", "returned"}
        /\ C9_ImporterWins
        /\ C10_MostSpecificSourceWins

-----------------------------------------------------------------------------
(* mark_caches: what is checked *)

\* The directories of a file system that a pattern of `caches` matches.
MatchedDirectories(tree) ==
    {path \in DOMAIN tree :
        /\ tree[path].kind = "dir"
        /\ \E i \in 1..Len(caches) : Matches(caches[i], path)}

\* The paths of a file system that a pattern of `caches` matches and that
\* are no directories.
MatchedOthers(tree) ==
    {path \in DOMAIN tree :
        /\ tree[path].kind # "dir"
        /\ \E i \in 1..Len(caches) : Matches(caches[i], path)}

\* The text begins with the signature line of a cache directory tag.
HasSignatureLine(text) ==
    Len(text) >= 1 /\ text[1] = "Signature: 8a477f597d28d172789f06886806bc55"

\* The tag as the program writes it.
WrittenTag(node) ==
    /\ node = File(CACHE_TAG_CONTENTS)
    /\ HasSignatureLine(node.contents)

\* C12: cache tagging is idempotent.  A call that returns has created
\* CACHEDIR.TAG, with the fixed contents, in every matched directory that
\* had none; every call after the first writes nothing and leaves the file
\* system as it found it; a call writes at most one file per matched
\* directory and only tags of matched directories, so nothing is created
\* for a pattern that matches no existing path, and nothing that existed is
\* changed.
C12_MarkCachesIdempotent ==
    /\ mc_state = "returned" =>
           \A dir \in MatchedDirectories(fs_before) :
               ~Exists(fs_before, TagPath(dir)) =>
                   Exists(fs, TagPath(dir)) /\ WrittenTag(fs[TagPath(dir)])
    /\ (mc_state # "start" /\ mc_prev # "none") =>
           written = <<>> /\ fs = fs_before
    /\ mc_state # "start" =>
           /\ \A i \in 1..Len(written) : \A j \in (i + 1)..Len(written) :
                  written[i] # written[j]
           /\ \A i \in 1..Len(written) :
                  \E dir \in MatchedDirectories(fs_before) :
                      written[i] = TagPath(dir)
           /\ DOMAIN fs \ DOMAIN fs_before = {written[i] : i \in 1..Len(written)}
           /\ \A path \in DOMAIN fs_before : fs[path] = fs_before[path]

\* The second call has returned, having written nothing, on a file system
\* in which the first call created a tag.
C12_Witness ==
    /\ mc_calls = 2
    /\ mc_state = "returned"
    /\ mc_prev = "returned"
    /\ written = <<>>
    /\ \E dir \in MatchedDirectories(fs_initial) :
           /\ ~Exists(fs_initial, TagPath(dir))
           /\ Exists(fs, TagPath(dir))

\* The matched directories of a file system whose CACHEDIR.TAG is a regular
\* file that does not begin with the signature line.
ForeignTagged(tree) ==
    {dir \in MatchedDirectories(tree) :
        /\ IsFile(tree, TagPath(dir))
        /\ ~HasSignatureLine(tree[TagPath(dir)].contents)}

\* C13: where a matched directory holds a CACHEDIR.TAG that does not begin
\* with the signature line, no call of mark_caches returns, the first as
\* little as any later one, and the file stays as it was; a tag that does
\* begin with the signature line is never what a call fails on, and it
\* stays as it was, too.
C13_ForeignTagFailsUntouched ==
    /\ mc_state = "returned" => ForeignTagged(fs_before) = {}
    /\ \A path \in DOMAIN fs_initial : fs[path] = fs_initial[path]
    /\ (mc_state = "raised" /\ IsFile(fs, TagPath(mc_failed_at))) =>
           ~HasSignatureLine(fs[TagPath(mc_failed_at)].contents)

\* The second call has failed, as the first did, on a tag with another
\* first line, which is still what it was.
C13_Witness ==
    /\ mc_calls = 2
    /\ mc_prev = "raised"
    /\ mc_state = "raised"
    /\ mc_error = "AssertionError"
    /\ mc_failed_at \in ForeignTagged(fs_initial)
    /\ fs[TagPath(mc_failed_at)] = fs_initial[TagPath(mc_failed_at)]

\* A call has returned after it looked at a tag that begins with the
\* signature line and goes on differently from the tag the program writes.
C13_OtherTagAccepted ==
    /\ mc_state = "returned"
    /\ \E dir \in MatchedDirectories(fs_initial) :
           /\ IsFile(fs_initial, TagPath(dir))
           /\ HasSignatureLine(fs_initial[TagPath(dir)].contents)
           /\ fs_initial[TagPath(dir)] # File(CACHE_TAG_CONTENTS)

\* C18: mark_caches acts on directories only.  A call fails only at a
\* matched directory (on the tag it finds there), never at a match that is
\* no directory, where it writes nothing; and when it returns, every matched
\* directory holds a tag that begins with the signature line, found or
\* created.
C18_OnlyDirectoriesActedOn ==
    /\ mc_state = "raised" => IsDirectory(fs_before, mc_failed_at)
    /\ \A i \in 1..Len(written) :
           \E dir \in MatchedDirectories(fs_before) : written[i] = TagPath(dir)
    /\ mc_state = "returned" =>
           \A dir \in MatchedDirectories(fs_before) :
               /\ IsFile(fs, TagPath(dir))
               /\ HasSignatureLine(fs[TagPath(dir)].contents)

\* Without its first conjunct the statement of C18 holds: nothing is
\* written for a match that is no directory, and the matched directories of
\* a call that returns are tagged.
C18_ExceptForTheFailure ==
    /\ \A i \in 1..Len(written) :
           \E dir \in MatchedDirectories(fs_before) : written[i] = TagPath(dir)
    /\ mc_state = "returned" =>
           /\ MatchedOthers(fs_before) = {}
           /\ \A dir \in MatchedDirectories(fs_before) :
                  /\ IsFile(fs, TagPath(dir))
                  /\ HasSignatureLine(fs[TagPath(dir)].contents)

=============================================================================
